---- MODULE Spec2Model ----
(***************************************************************************)
(* A model of the okx-billing run: main() of the billing script walks the  *)
(* users of the credential store, queries the exchange for each of them    *)
(* (config, balance, positions, six paginated bill fetches), collects the  *)
(* per-user reportData, generateReport() writes the JSON report and        *)
(* processReport() flattens it into the CSV billing table.                 *)
(*                                                                         *)
(* Strings are sequences of tokens; the token "," is the comma character   *)
(* and ": " the separator generateReport puts between key and value.       *)
(* Numbers are fixed-point integers counting units of 1e-8, the precision  *)
(* toFixed(8) reports, plus NaN.                                           *)
(***************************************************************************)
EXTENDS Integers, Sequences, FiniteSets, TLC

\* ------------------------------------------------------------- bounds

\* longest ledger of one instrument
MaxLedger == 2
\* largest page the exchange hands out
MaxPage == 2
\* most users the credential store supplies
MaxUsers == 2
\* most runs of processReport on one report
MaxRuns == 2

\* page requests the model lets one getBills call issue
ReqCap == MaxLedger + 3

\* ---------------------------------------------------------- constants

\* Date.now() - 30 days, on the model's clock
thirtyDaysAgo == 10
\* limit=100 of the bills query
limit == 100
\* after = "": no cursor yet
NoCursor == 0

\* the six instruments, in the order main() fetches them
InstIds ==
  << "BTC-USDT", "ETH-USDT", "BTC-USDT-SWAP", "ETH-USDT-SWAP",
     "BTC-USD-SWAP", "ETH-USD-SWAP" >>

Slots == 1..6

\* the slots of reportData.trading that generateReport reads per class
SpotSlots == <<1, 2>>
PerpsSlots == <<3, 4>>
InverseSlots == <<5, 6>>

\* --------------------------------------------------------- JS numbers

NaN == [nan |-> TRUE, v |-> 0]

Num(n) == [nan |-> FALSE, v |-> n]

\* a + b of two JS numbers
Plus(a, b) == IF a.nan \/ b.nan THEN NaN ELSE Num(a.v + b.v)

\* the numbers a total of the model can take
NumRange == (0 - 8 * (MaxLedger + 1)) .. (8 * (MaxLedger + 1))

\* String(v) of a JS number: the token `${v}` interpolates
NumberToString(a) == IF a.nan THEN "NaN" ELSE ToString(a.v)

\* parseFloat of a one-token string: the number it spells, NaN when it
\* spells none
parseFloat(tok) ==
  IF \E n \in NumRange : ToString(n) = tok
  THEN Num(CHOOSE n \in NumRange : ToString(n) = tok)
  ELSE NaN

\* x.toFixed(8): the text of x at 8 fractional digits
toFixed8(a) == << NumberToString(a) >>

\* ------------------------------------------------------------ strings

RECURSIVE join(_, _)
\* fields.join(sep)
join(fields, sep) ==
  IF Len(fields) = 0 THEN << >>
  ELSE IF Len(fields) = 1 THEN fields[1]
  ELSE fields[1] \o << sep >> \o join(Tail(fields), sep)

RECURSIVE split(_, _)
\* text.split(sep)
split(text, sep) ==
  IF \E j \in 1..Len(text) : text[j] = sep
  THEN LET j == CHOOSE x \in 1..Len(text) :
                  text[x] = sep /\ \A y \in 1..(x - 1) : text[y] # sep
       IN << SubSeq(text, 1, j - 1) >> \o split(SubSeq(text, j + 1, Len(text)), sep)
  ELSE << text >>

\* s || dflt for a string s
OrDefault(s, dflt) == IF s = << >> THEN dflt ELSE s

\* ------------------------------------------------- the exchange's data

\* pnl strings a bill carries: a number, or "" (no pnl)
PnlChoices == { "4", "-4", "" }

\* ledgers, newest first: a in-window entries then b older ones, billId and
\* ts falling with age
LedgerShape(a, b, pnls) ==
  [ j \in 1..(a + b) |->
      [ billId |-> a + b + 1 - j,
        ts |-> thirtyDaysAgo + a - j,
        pnl |-> pnls[j] ] ]

Ledgers ==
  { LedgerShape(a, n - a, pnls) :
      << n, a, pnls >> \in
        { t \in (0..MaxLedger) \X (0..MaxLedger) \X
                UNION { [1..m -> PnlChoices] : m \in 0..MaxLedger } :
            t[2] <= t[1] /\ Len(t[3]) = t[1] } }


\* how a request can fail: transport failure, non-OK HTTP status, exchange
\* code other than "0"
FailKinds == { "transport", "http", "code" }

NoFail == [at |-> 0, kind |-> "ok"]

\* the exchange's behaviour for one instrument of one account: its ledger, the
\* page size it serves, the request it fails (if any), and whether it ignores
\* the cursor and serves the newest page again and again
Plan(l, s, f, r) == [ledger |-> l, pageSize |-> s, fail |-> f, rogue |-> r]

QuietPlan(l) == Plan(l, MaxPage, NoFail, FALSE)

EmptyPlan == QuietPlan(<< >>)

GainPlan == QuietPlan(LedgerShape(1, 0, << "4" >>))

LossPlan == QuietPlan(LedgerShape(1, 0, << "-4" >>))

RichPlans ==
  { Plan(l, s, NoFail, r) : l \in Ledgers, s \in 1..MaxPage, r \in BOOLEAN }
  \cup
  { Plan(l, s, [at |-> n, kind |-> fk], FALSE) :
      l \in Ledgers, s \in 1..MaxPage, n \in 1..2, fk \in FailKinds }

\* balance details as the exchange reports them
Detail(c, e, u, a) ==
  [ccy |-> c, eq |-> e, eqUsd |-> u, availBal |-> a, frozenBal |-> << "0" >>]

BtcDetail == Detail("BTC", << "1.0" >>, << "60000" >>, << "0.9" >>)
EthDetail == Detail("ETH", << >>, << "30" >>, << "2" >>)
UsdtDetail == Detail("USDT", << "500" >>, << "500.1" >>, << "499" >>)

\* answers to the balance query: a failure, no data row, or a data row with
\* details
BalanceChoices ==
  { [kind |-> "transport", rows |-> << >>],
    [kind |-> "ok", rows |-> << >>],
    [kind |-> "ok", rows |-> << << >> >>],
    [kind |-> "ok", rows |-> << << BtcDetail >> >>],
    [kind |-> "ok", rows |-> << << UsdtDetail, EthDetail, BtcDetail >> >>] }

Position(inst, p) == [instId |-> inst, pos |-> p, avgPx |-> "100", upl |-> "1"]

\* answers to the positions query
PositionChoices ==
  { [kind |-> "http", data |-> << >>],
    [kind |-> "ok", data |-> << >>],
    [kind |-> "ok",
     data |-> << Position("BTC-USDT-SWAP", "0"), Position("ETH-USDT-SWAP", "4") >>] }

\* one account at the exchange
Exchange(c, b, p, pl) == [config |-> c, balance |-> b, positions |-> p, plans |-> pl]

FullBalance == [kind |-> "ok", rows |-> << << UsdtDetail, EthDetail, BtcDetail >> >>]

SomePositions ==
  [kind |-> "ok",
   data |-> << Position("BTC-USDT-SWAP", "0"), Position("ETH-USDT-SWAP", "4") >>]

BasePlans == [k \in Slots |-> IF k \in {1, 3} THEN GainPlan ELSE EmptyPlan]

\* exchanges of the multi-account runs: all fine, config failing, balance
\* failing, positions failing, the first bill fetch failing
PlainExchanges ==
  { Exchange("ok", FullBalance, SomePositions, BasePlans),
    Exchange("code", FullBalance, SomePositions, BasePlans),
    Exchange("ok", [kind |-> "http", rows |-> << >>], SomePositions, BasePlans),
    Exchange("ok", FullBalance, [kind |-> "transport", data |-> << >>], BasePlans),
    Exchange("ok", FullBalance, SomePositions,
             [BasePlans EXCEPT ![1].fail = [at |-> 1, kind |-> "transport"]]) }

\* exchanges that vary the balance and positions answers
SnapshotExchanges ==
  { Exchange("ok", b, p, BasePlans) : b \in BalanceChoices, p \in PositionChoices }

\* exchanges that vary one instrument's ledger and server behaviour, beside a
\* quiet sibling of the same class
FetchExchanges ==
  { Exchange("ok", FullBalance, SomePositions,
             [k \in Slots |-> IF k = pr[1] THEN rich
                              ELSE IF k = pr[2] THEN sib ELSE EmptyPlan]) :
      << pr, rich, sib >> \in
        { <<1, 2>>, <<4, 3>>, <<5, 6>> } \X RichPlans \X { EmptyPlan, GainPlan } }

\* exchanges that vary the totals of all six instruments
TotalsExchanges ==
  { Exchange("ok", FullBalance, SomePositions, pl) :
      pl \in [Slots -> { EmptyPlan, GainPlan, LossPlan }] }

\* ------------------------------------------------ the credential store

User(n, e, k, s, p) ==
  [ id |-> << "u", "s", "e", "r", "7" >>, name |-> n, email |-> e, label |-> << >>,
    api_key |-> k, secret_key |-> s, passphrase |-> p ]

PlainName == << "Ann" >>
CommaName == << "Doe", ",", "John" >>
Mail == << "a@x.ie" >>

\* users with one credential missing
PartialUsers ==
  { User(PlainName, Mail, "", "secret", "pass"),
    User(PlainName, Mail, "key", "", "pass"),
    User(PlainName, Mail, "key", "secret", "") }

TheUser == User(PlainName, Mail, "key", "secret", "pass")

\* an account: the store's row and the exchange behind its credentials
Account(u, x) == [user |-> u, exch |-> x]

PlainAccounts ==
  { Account(User(n, Mail, "key", "secret", "pass"), x) :
      n \in { PlainName, CommaName }, x \in PlainExchanges }
  \cup
  { Account(u, Exchange("ok", FullBalance, SomePositions, BasePlans)) :
      u \in PartialUsers \cup { User(<< >>, << >>, "key", "secret", "pass") } }

\* what the store's query endpoint answers: rows, success without a result
\* set, success false, or no answer at all
StoreReply(k, rows) == [kind |-> k, rows |-> rows]

\* answers of the store that yield no user
EmptyStores ==
  { StoreReply("ok", << >>), StoreReply("shape", << >>),
    StoreReply("failed", << >>), StoreReply("transport", << >>) }

\* process.env: the three credentials, "" for one that is not set
Env(k, s, p) == [API_KEY |-> k, SECRET_KEY |-> s, PASSPHRASE |-> p]
FullEnv == Env("key", "secret", "pass")
EnvChoices == { FullEnv, Env("key", "secret", ""), Env("", "", "") }

\* dbClient.getAllUsersWithApiKeys(): the rows, [] for every other answer
getAllUsersWithApiKeys(reply) ==
  IF reply.kind = "ok" THEN reply.rows ELSE << >>

\* the user main() builds from the environment
FallbackUser(e) ==
  [ id |-> << "u", "n", "k", "n", "o", "w", "n" >>, name |-> << "Unknown User" >>,
    email |-> << "unknown@example.com" >>, label |-> << "Default API Key" >>,
    api_key |-> e.API_KEY, secret_key |-> e.SECRET_KEY, passphrase |-> e.PASSPHRASE ]

\* the runs: several plain accounts, or one account with a varied exchange
Worlds ==
  UNION { [1..n -> PlainAccounts] : n \in 1..MaxUsers }
  \cup
  { << Account(TheUser, x) >> :
      x \in SnapshotExchanges \cup FetchExchanges \cup TotalsExchanges }


\* ----------------------------------------------------------- the state

VARIABLES
  store,             \* what the credential store answers to the query
  env,               \* the credentials of the environment
  now,               \* the clock, in days
  jsonAt,            \* where the JSON report lies: "none", "cwd", "outputDir"
  runs,              \* the runs of processReport: path given and outcome
  usersWithApiKeys,  \* main: the users to process
  exchange,          \* the exchange behind each user's credentials
  pc,                \* main's position
  i,                 \* main: index of the user being processed
  reportData,        \* main: the record of the user being processed
  slot,              \* main: the instrument whose bills are being fetched
  allBills,          \* getBills: entries collected so far
  after,             \* getBills: the cursor
  requests,          \* every request issued to the exchange, in order
  allReports,        \* main: the records collected
  formattedReport,   \* generateReport: the JSON report written
  billingRows,       \* processReport: the 18 fields of each row, before the join
  csvLines           \* processReport: the lines of the CSV written

vars ==
  << store, env, now, jsonAt, runs, usersWithApiKeys, exchange, pc, i,
     reportData, slot, allBills, after,
     requests, allReports, formattedReport, billingRows, csvLines >>

NullBills == [kind |-> "null", data |-> << >>]

\* the reportData main() initialises for a user
NewReportData(user, displayUserId) ==
  [ user |-> [ name |-> user.name, email |-> user.email, id |-> displayUserId,
               label |-> OrDefault(user.label, << "No Label" >>) ],
    accountInfo |-> "null",
    balances |-> [kind |-> "null", rows |-> << >>],
    positions |-> [kind |-> "null", data |-> << >>],
    trading |-> [k \in Slots |-> NullBills] ]

\* "******" and the last four characters of the id
DisplayUserId(id) ==
  IF id = << >> THEN << "unknown" >>
  ELSE << "******" >> \o
       SubSeq(id, IF Len(id) > 4 THEN Len(id) - 3 ELSE 1, Len(id))

NoReport == [written |-> FALSE, timestamp |-> 0, totalAccounts |-> 0, accounts |-> << >>]

\* the start of main(): a store with rows and the exchanges behind them, or
\* a store that yields no user and the exchange behind the environment's
\* credentials
Init ==
  /\ \/ \E w \in Worlds :
          /\ store = StoreReply("ok", [n \in 1..Len(w) |-> w[n].user])
          /\ env = FullEnv
          /\ exchange = [n \in 1..Len(w) |-> w[n].exch]
     \/ \E s \in EmptyStores, e \in EnvChoices, x \in PlainExchanges :
          /\ store = s
          /\ env = e
          /\ exchange = << x >>
  /\ now = 1
  /\ jsonAt = "none"
  /\ runs = << >>
  /\ usersWithApiKeys = << >>
  /\ pc = "start"
  /\ i = 1
  /\ reportData = NewReportData(User(<< >>, << >>, "", "", ""), << >>)
  /\ slot = 1
  /\ allBills = << >>
  /\ after = NoCursor
  /\ requests = << >>
  /\ allReports = << >>
  /\ formattedReport = NoReport
  /\ billingRows = << >>
  /\ csvLines = << >>

\* ------------------------------------------------------- the exchange

\* the page an exchange that honours the cursor serves: the entries older
\* than the one the cursor names, at most the page size and the limit asked
Page(ledger, cursor, size, lim) ==
  LET from == IF cursor = NoCursor THEN 1
              ELSE 1 + Cardinality({ j \in 1..Len(ledger) : ledger[j].billId >= cursor })
      n == IF size < lim THEN size ELSE lim
      to == IF from + n - 1 < Len(ledger) THEN from + n - 1 ELSE Len(ledger)
  IN SubSeq(ledger, from, to)

\* the exchange's answer to the nth bills request of a fetch
BillsResponse(plan, cursor, lim, n) ==
  IF plan.fail.at = n THEN [kind |-> plan.fail.kind, data |-> << >>]
  ELSE [ kind |-> "ok",
         data |-> Page(plan.ledger, IF plan.rogue THEN NoCursor ELSE cursor,
                       plan.pageSize, lim) ]

\* requests issued so far for the bills of user u, slot k
BillRequests(u, k) ==
  SelectSeq(requests, LAMBDA r : r.user = u /\ r.path = "bills" /\ r.inst = InstIds[k])

\* a request that never carries the cursor
RequestNoCursor(u, path, inst, cursor, lim) ==
  [user |-> u, path |-> path, inst |-> inst, after |-> NoCursor, limit |-> lim]

Request(u, path, inst, cursor, lim) ==
  [user |-> u, path |-> path, inst |-> inst, after |-> cursor, limit |-> lim]

\* makeOkxApiRequest throws on a transport failure, a non-OK status and an
\* exchange code other than "0"
Throws(resp) == resp.kind # "ok"

\* -------------------------------------------------------------- main

\* the check with the passphrase forgotten
MissingCredentialsNoPassphrase(user) ==
  user.api_key = "" \/ user.secret_key = ""

\* the credential check of main()
MissingCredentials(user) ==
  user.api_key = "" \/ user.secret_key = "" \/ user.passphrase = ""

\* a start that adds the fallback user to the users of the store
LoadUsersAlwaysFallback ==
  /\ pc = "start"
  /\ usersWithApiKeys' = getAllUsersWithApiKeys(store) \o << FallbackUser(env) >>
  /\ pc' = "loop"
  /\ UNCHANGED << store, env, now, jsonAt, runs, exchange, i, reportData, slot, allBills,
                  after, requests, allReports, formattedReport, billingRows, csvLines >>

\* main() up to the loop: the users of the store, or the fallback user when
\* the store yields none
LoadUsers ==
  /\ pc = "start"
  /\ usersWithApiKeys' =
       IF Len(getAllUsersWithApiKeys(store)) = 0
       THEN << FallbackUser(env) >>
       ELSE getAllUsersWithApiKeys(store)
  /\ pc' = "loop"
  /\ UNCHANGED << store, env, now, jsonAt, runs, exchange, i, reportData, slot, allBills,
                  after, requests, allReports, formattedReport, billingRows, csvLines >>

\* the for loop is over: generateReport is called
EndLoop ==
  /\ pc = "loop"
  /\ i > Len(usersWithApiKeys)
  /\ pc' = "generate"
  /\ UNCHANGED << store, env, now, jsonAt, runs, usersWithApiKeys, exchange,
                  i, reportData, slot, allBills, after,
                  requests, allReports, formattedReport, billingRows, csvLines >>

\* a user with a credential missing: continue
SkipUser ==
  /\ pc = "loop"
  /\ i <= Len(usersWithApiKeys)
  /\ MissingCredentials(usersWithApiKeys[i])
  /\ i' = i + 1
  /\ UNCHANGED << store, env, now, jsonAt, runs, usersWithApiKeys, exchange,
                  pc, reportData, slot, allBills, after,
                  requests, allReports, formattedReport, billingRows, csvLines >>

\* a user with credentials: reportData is initialised, the config request
\* is next
BeginUser ==
  /\ pc = "loop"
  /\ i <= Len(usersWithApiKeys)
  /\ ~MissingCredentials(usersWithApiKeys[i])
  /\ reportData' = NewReportData(usersWithApiKeys[i],
                                 DisplayUserId(usersWithApiKeys[i].id))
  /\ pc' = "config"
  /\ UNCHANGED << store, env, now, jsonAt, runs, usersWithApiKeys, exchange,
                  i, slot, allBills, after,
                  requests, allReports, formattedReport, billingRows, csvLines >>

\* a catch that puts the record in front of the collection
CatchUserFront(rd) ==
  /\ allReports' = << rd >> \o allReports
  /\ i' = i + 1
  /\ pc' = "loop"

\* a catch that ends the loop over the users
CatchUserAbort(rd) ==
  /\ allReports' = Append(allReports, rd)
  /\ i' = Len(usersWithApiKeys) + 1
  /\ pc' = "loop"

\* a catch that drops the record
CatchUserDrop(rd) ==
  /\ allReports' = allReports
  /\ i' = i + 1
  /\ pc' = "loop"

\* a catch whose record shares the bills of the record pushed before it
CatchUserShared(rd) ==
  /\ allReports' =
       Append(allReports,
              IF Len(allReports) > 0
              THEN [rd EXCEPT !.trading = allReports[Len(allReports)].trading]
              ELSE rd)
  /\ i' = i + 1
  /\ pc' = "loop"

\* the catch of main(): the record is pushed with what it holds
CatchUser(rd) ==
  /\ allReports' = Append(allReports, rd)
  /\ i' = i + 1
  /\ pc' = "loop"

\* GET /api/v5/account/config
CheckConfig ==
  /\ pc = "config"
  /\ requests' = Append(requests, Request(i, "config", "", NoCursor, 0))
  /\ IF Throws([kind |-> exchange[i].config])
     THEN CatchUser(reportData) /\ UNCHANGED reportData
     ELSE /\ reportData' = [reportData EXCEPT !.accountInfo = "config"]
          /\ pc' = "balance"
          /\ UNCHANGED << i, allReports >>
  /\ UNCHANGED << store, env, now, jsonAt, runs, usersWithApiKeys, exchange,
                  slot, allBills, after,
                  formattedReport, billingRows, csvLines >>

\* GET /api/v5/account/balance
CheckBalance ==
  /\ pc = "balance"
  /\ requests' = Append(requests, Request(i, "balance", "", NoCursor, 0))
  /\ IF Throws(exchange[i].balance)
     THEN CatchUser(reportData) /\ UNCHANGED reportData
     ELSE /\ reportData' = [reportData EXCEPT !.balances = exchange[i].balance]
          /\ pc' = "positions"
          /\ UNCHANGED << i, allReports >>
  /\ UNCHANGED << store, env, now, jsonAt, runs, usersWithApiKeys, exchange,
                  slot, allBills, after,
                  formattedReport, billingRows, csvLines >>

\* getActivePositions: the response, or { error } when the request throws
getActivePositions(resp) ==
  IF Throws(resp) THEN [kind |-> "error", data |-> << >>] ELSE resp

\* GET /api/v5/account/positions; the first getBills call starts
CheckPositions ==
  /\ pc = "positions"
  /\ requests' = Append(requests, Request(i, "positions", "", NoCursor, 0))
  /\ reportData' = [reportData EXCEPT !.positions = getActivePositions(exchange[i].positions)]
  /\ pc' = "bills"
  /\ slot' = 1
  /\ allBills' = << >>
  /\ after' = NoCursor
  /\ UNCHANGED << store, env, now, jsonAt, runs, usersWithApiKeys, exchange,
                  i, allReports, formattedReport, billingRows, csvLines >>

\* ---------------------------------------------------------- getBills

InWindow(b) == b.ts >= thirtyDaysAgo

\* a loop body that takes the cursor from the first entry of the page
LoopBodyFirstCursor(collected, cursor, data) ==
  IF Len(data) = 0
  THEN [break |-> TRUE, allBills |-> collected, after |-> cursor]
  ELSE LET newBills == SelectSeq(data, InWindow)
       IN IF Len(newBills) < Len(data)
          THEN [break |-> TRUE, allBills |-> collected, after |-> cursor]
          ELSE [ break |-> FALSE, allBills |-> collected \o newBills,
                 after |-> data[1].billId ]

\* a loop body that goes on after a page with older entries
LoopBodyNoWindowBreak(collected, cursor, data) ==
  IF Len(data) = 0
  THEN [break |-> TRUE, allBills |-> collected, after |-> cursor]
  ELSE [ break |-> FALSE, allBills |-> collected \o SelectSeq(data, InWindow),
         after |-> data[Len(data)].billId ]

\* one pass of the while loop on a page that arrived: break, or collect the
\* page and move the cursor
LoopBody(collected, cursor, data) ==
  IF Len(data) = 0
  THEN [break |-> TRUE, allBills |-> collected, after |-> cursor]
  ELSE LET newBills == SelectSeq(data, InWindow)
       IN IF Len(newBills) < Len(data)
          THEN [break |-> TRUE, allBills |-> collected, after |-> cursor]
          ELSE [ break |-> FALSE, allBills |-> collected \o newBills,
                 after |-> data[Len(data)].billId ]

\* what getBills returns when the loop breaks
BillsOk(collected) == [kind |-> "ok", data |-> collected]

\* a catch that hands back the pages collected so far
BillsErrorPartial(collected) == [kind |-> "error", data |-> collected]

\* what getBills returns from its catch
BillsError(collected) == [kind |-> "error", data |-> << >>]

\* getBills returned for the current slot: main() stores the result and calls
\* getBills for the next instrument, or pushes the record after the sixth
StoreBills(result) ==
  /\ reportData' = [reportData EXCEPT !.trading[slot] = result]
  /\ allBills' = << >>
  /\ after' = NoCursor
  /\ IF slot < 6
     THEN slot' = slot + 1 /\ UNCHANGED << pc, i, allReports >>
     ELSE /\ slot' = 1
          /\ allReports' = Append(allReports, reportData')
          /\ i' = i + 1
          /\ pc' = "loop"

\* one page request of getBills and what the loop does with the answer
GetBillsPage ==
  /\ pc = "bills"
  /\ Len(BillRequests(i, slot)) < ReqCap
  /\ LET resp == BillsResponse(exchange[i].plans[slot], after, limit,
                               Len(BillRequests(i, slot)) + 1)
         step == LoopBody(allBills, after, resp.data)
     IN /\ requests' = Append(requests, Request(i, "bills", InstIds[slot], after, limit))
        /\ IF Throws(resp) THEN StoreBills(BillsError(allBills))
           ELSE IF step.break THEN StoreBills(BillsOk(step.allBills))
           ELSE /\ allBills' = step.allBills
                /\ after' = step.after
                /\ UNCHANGED << pc, i, reportData, slot, allReports >>
  /\ UNCHANGED << store, env, now, jsonAt, runs, usersWithApiKeys, exchange,
                  formattedReport, billingRows, csvLines >>


\* ---------------------------------------------------- generateReport

RECURSIVE SumPnl(_)
\* bills.reduce((total, bill) => total + parseFloat(bill.pnl || 0), 0)
SumPnl(bills) ==
  IF Len(bills) = 0 THEN Num(0)
  ELSE Plus(SumPnl(SubSeq(bills, 1, Len(bills) - 1)),
            IF bills[Len(bills)].pnl = "" THEN Num(0)
            ELSE parseFloat(bills[Len(bills)].pnl))

\* a total that is no number when the result holds no data
calculateTotalPnLNoGuard(bills) ==
  IF bills.kind # "ok" THEN NaN ELSE SumPnl(bills.data)

\* total PnL of one getBills result; 0 when it holds no data
calculateTotalPnL(bills) ==
  IF bills.kind # "ok" THEN Num(0) ELSE SumPnl(bills.data)

\* a filter that keeps the gains only
NotZeroPositive(a) == a.nan \/ a.v > 0

\* v !== 0
NotZero(a) == a.nan \/ a.v # 0

\* a summary that leaves out the class's second instrument
PnlSummaryFirstOnly(trading, slots) ==
  IF NotZero(calculateTotalPnL(trading[slots[1]]))
  THEN << << InstIds[slots[1]], ": ",
             NumberToString(calculateTotalPnL(trading[slots[1]])) >> >>
  ELSE << >>

\* Object.entries(pnl.<class>).filter(([_, v]) => v !== 0).map(`${k}: ${v}`)
PnlSummary(trading, slots) ==
  LET line(k) == << InstIds[k], ": ", NumberToString(calculateTotalPnL(trading[k])) >>
      keep(k) == NotZero(calculateTotalPnL(trading[k]))
  IN (IF keep(slots[1]) THEN << line(slots[1]) >> ELSE << >>) \o
     (IF keep(slots[2]) THEN << line(slots[2]) >> ELSE << >>)

\* a summary that lists every position
PositionSummaryAll(positions) ==
  [ n \in 1..Len(positions.data) |->
      << positions.data[n].instId, ": ", positions.data[n].pos, " @ ",
         positions.data[n].avgPx, " (PnL: ", positions.data[n].upl, ")" >> ]

\* the positions with parseFloat(p.pos) !== 0, as summary strings
PositionSummary(positions) ==
  LET open == SelectSeq(positions.data, LAMBDA p : NotZero(parseFloat(p.pos)))
  IN [ n \in 1..Len(open) |->
         << open[n].instId, ": ", open[n].pos, " @ ", open[n].avgPx,
            " (PnL: ", open[n].upl, ")" >> ]

\* account.balances?.data?.[0]?.details || []
BalanceDetails(balances) ==
  IF balances.kind = "ok" /\ Len(balances.rows) > 0 THEN balances.rows[1] ELSE << >>

\* one entry of formattedReport.accounts
FormatAccount(account) ==
  [ user |-> account.user,
    summary |->
      [ balances |->
          [ n \in 1..Len(BalanceDetails(account.balances)) |->
              LET b == BalanceDetails(account.balances)[n]
              IN << b.ccy, ": " >> \o b.availBal \o << " (Available) + " >> \o
                 b.frozenBal \o << " (Frozen)" >> ],
        pnl |->
          [ spot |-> PnlSummary(account.trading, SpotSlots),
            perpetuals |-> PnlSummary(account.trading, PerpsSlots),
            inversePerpetuals |-> PnlSummary(account.trading, InverseSlots) ],
        positions |-> PositionSummary(account.positions) ],
    accountInfo |-> account.accountInfo,
    balances |-> account.balances,
    positions |-> account.positions,
    trading |-> account.trading ]

\* generateReport: the JSON report is written; processReport is spawned
GenerateReport ==
  /\ pc = "generate"
  /\ formattedReport' =
       [ written |-> TRUE,
         timestamp |-> now,
         totalAccounts |-> Len(allReports),
         accounts |-> [n \in 1..Len(allReports) |-> FormatAccount(allReports[n])] ]
  /\ jsonAt' = "cwd"
  /\ pc' = "process"
  /\ UNCHANGED << store, env, now, runs, usersWithApiKeys, exchange,
                  i, reportData, slot, allBills, after,
                  requests, allReports, billingRows, csvLines >>

\* ----------------------------------------------------- processReport

\* the header line of the CSV
Header ==
  << "date", ",", "time_irish", ",", "name", ",", "email", ",", "spot_pnl", ",",
     "perps_pnl", ",", "invperps_pnl", ",", "btc_equity", ",", "btc_usd_value", ",",
     "btc_available", ",", "eth_equity", ",", "eth_usd_value", ",", "eth_available", ",",
     "usdt_equity", ",", "usdt_usd_value", ",", "usdt_available", ",", "perps_fee", ",",
     "invperps_fee" >>

\* the report's timestamp in Irish time
\* a date that is the clock's, not the report's
clockDate == now

\* new Date(report.timestamp)
reportDate == formattedReport.timestamp

\* the day of the report in Europe/Dublin as dd/mm/yyyy, the clock's day 1
\* being the 5th
formattedDate == << ToString(4 + reportDate), "/11/2026" >>
formattedTime == << "12:00" >>

RECURSIVE SumSummary(_)
\* list.reduce((sum, pnl) => sum + parseFloat(pnl.split(": ")[1]), 0)
SumSummary(list) ==
  IF Len(list) = 0 THEN Num(0)
  ELSE Plus(SumSummary(SubSeq(list, 1, Len(list) - 1)),
            LET parts == split(list[Len(list)], ": ")
            IN IF Len(parts) >= 2 /\ Len(parts[2]) = 1
               THEN parseFloat(parts[2][1]) ELSE NaN)

\* the class PnL recovered from the summary strings
ClassPnL(list) == IF Len(list) > 0 THEN SumSummary(list) ELSE Num(0)

\* x * 0.25, at the precision toFixed(8) reports
Quarter(a) == IF a.nan THEN NaN ELSE Num((a.v * 25 + 50) \div 100)

\* a fee charged on losses too
FeeNoGuard(pnl) == Quarter(pnl)

\* pnl > 0 ? pnl * 0.25 : 0
Fee(pnl) == IF ~pnl.nan /\ pnl.v > 0 THEN Quarter(pnl) ELSE Num(0)

NoDetail == Detail("", << >>, << >>, << >>)

\* a find that takes the first detail whatever its currency
FindDetailAny(details, ccy) ==
  IF Len(details) > 0 THEN details[1] ELSE NoDetail

\* details.find((b) => b.ccy === ccy) || {}
FindDetail(details, ccy) ==
  IF \E n \in 1..Len(details) : details[n].ccy = ccy
  THEN details[CHOOSE n \in 1..Len(details) :
                 details[n].ccy = ccy /\ \A m \in 1..(n - 1) : details[m].ccy # ccy]
  ELSE NoDetail

\* the 18 fields of one account's row, in the order of the array literal
RowFields(account) ==
  LET spotPnL == ClassPnL(account.summary.pnl.spot)
      perpsPnL == ClassPnL(account.summary.pnl.perpetuals)
      invPerpsPnL == ClassPnL(account.summary.pnl.inversePerpetuals)
      details == BalanceDetails(account.balances)
      btcDetails == FindDetail(details, "BTC")
      ethDetails == FindDetail(details, "ETH")
      usdtDetails == FindDetail(details, "USDT")
  IN << formattedDate,
        formattedTime,
        OrDefault(account.user.name, << "Unknown" >>),
        OrDefault(account.user.email, << "Unknown" >>),
        toFixed8(spotPnL),
        toFixed8(perpsPnL),
        toFixed8(invPerpsPnL),
        OrDefault(btcDetails.eq, << "0" >>),
        OrDefault(btcDetails.eqUsd, << "0" >>),
        OrDefault(btcDetails.availBal, << "0" >>),
        OrDefault(ethDetails.eq, << "0" >>),
        OrDefault(ethDetails.eqUsd, << "0" >>),
        OrDefault(ethDetails.availBal, << "0" >>),
        OrDefault(usdtDetails.eq, << "0" >>),
        OrDefault(usdtDetails.eqUsd, << "0" >>),
        OrDefault(usdtDetails.availBal, << "0" >>),
        toFixed8(Fee(perpsPnL)),
        toFixed8(Fee(invPerpsPnL)) >>

\* fields.join(",")
CsvLine(fields) == join(fields, ",")

\* lines with every account's line twice
LinesTwice ==
  << Header >> \o
  [n \in 1..Len(formattedReport.accounts) |-> CsvLine(RowFields(formattedReport.accounts[n]))]
  \o
  [n \in 1..Len(formattedReport.accounts) |-> CsvLine(RowFields(formattedReport.accounts[n]))]

\* the lines of the CSV
Lines ==
  << Header >> \o
  [n \in 1..Len(formattedReport.accounts) |-> CsvLine(RowFields(formattedReport.accounts[n]))]

Run(path, outcome) == [path |-> path, outcome |-> outcome]

\* processReport as generateReport spawns it, on the report it has just
\* written: the header and one line per account, the JSON moved to the
\* dated folder
ProcessReport ==
  /\ pc = "process"
  /\ formattedReport.written
  /\ jsonAt = "cwd"
  /\ billingRows' =
       [n \in 1..Len(formattedReport.accounts) |-> RowFields(formattedReport.accounts[n])]
  /\ csvLines' = Lines
  /\ jsonAt' = "outputDir"
  /\ runs' = << Run("cwd", "ok") >>
  /\ now' = now + 1
  /\ pc' = "done"
  /\ UNCHANGED << store, env, usersWithApiKeys, exchange, i, reportData, slot, allBills, after,
                  requests, allReports, formattedReport >>

\* processReport run again from the command line, on the path the report
\* was written to or on the path it was moved to: readFileSync throws when
\* no file is there; else the CSV is written again and the JSON renamed to
\* the path in the dated folder
ProcessAgain ==
  /\ pc = "done"
  /\ Len(runs) < MaxRuns
  /\ \E reportPath \in { "cwd", "outputDir" } :
       IF jsonAt # reportPath
       THEN /\ runs' = Append(runs, Run(reportPath, "ENOENT"))
            /\ UNCHANGED << billingRows, csvLines, jsonAt >>
       ELSE /\ billingRows' =
                 [n \in 1..Len(formattedReport.accounts) |->
                    RowFields(formattedReport.accounts[n])]
            /\ csvLines' = Lines
            /\ jsonAt' = "outputDir"
            /\ runs' = Append(runs, Run(reportPath, "ok"))
  /\ now' = now + 1
  /\ UNCHANGED << store, env, usersWithApiKeys, exchange, pc, i, reportData, slot, allBills,
                  after, requests, allReports, formattedReport >>

\* -------------------------------------------------------------- the run

Next ==
  \/ LoadUsers
  \/ EndLoop
  \/ SkipUser
  \/ BeginUser
  \/ CheckConfig
  \/ CheckBalance
  \/ CheckPositions
  \/ GetBillsPage
  \/ GenerateReport
  \/ ProcessReport
  \/ ProcessAgain

Spec == Init /\ [][Next]_vars

\* ---- runs whose ledgers hold a pnl that is no number

\* a ledger of two in-window entries, the older one's pnl not numeric
BadPnlPlan == QuietPlan(LedgerShape(2, 0, << "4", "abc" >>))

\* the bad ledger behind one instrument of a class, its sibling with a gain
\* or without entries
BadPnlExchanges ==
  { Exchange("ok", FullBalance, SomePositions,
             [k \in Slots |-> IF k = pr[1] THEN BadPnlPlan
                              ELSE IF k = pr[2] THEN sib ELSE EmptyPlan]) :
      << pr, sib >> \in { <<1, 2>>, <<3, 4>>, <<6, 5>> } \X { EmptyPlan, GainPlan } }

BadPnlAccounts ==
  { Account(TheUser, x) : x \in BadPnlExchanges }
  \cup
  { Account(User(PlainName, Mail, "key", "secret", ""),
            Exchange("ok", FullBalance, SomePositions, BasePlans)),
    Account(TheUser, Exchange("ok", FullBalance, SomePositions, BasePlans)) }

InitFormat ==
  /\ \E w \in UNION { [1..n -> BadPnlAccounts] : n \in 1..MaxUsers } :
       /\ store = StoreReply("ok", [n \in 1..Len(w) |-> w[n].user])
       /\ exchange = [n \in 1..Len(w) |-> w[n].exch]
  /\ env = FullEnv
  /\ now = 1
  /\ jsonAt = "none"
  /\ runs = << >>
  /\ usersWithApiKeys = << >>
  /\ pc = "start"
  /\ i = 1
  /\ reportData = NewReportData(User(<< >>, << >>, "", "", ""), << >>)
  /\ slot = 1
  /\ allBills = << >>
  /\ after = NoCursor
  /\ requests = << >>
  /\ allReports = << >>
  /\ formattedReport = NoReport
  /\ billingRows = << >>
  /\ csvLines = << >>

SpecFormat == InitFormat /\ [][Next]_vars


\* ====================================================================
\* The claims
\* ====================================================================

\* the run is over: both artifacts are written
Done == pc = "done"

\* a user with a usable credential triple
HasTriple(u) == u.api_key # "" /\ u.secret_key # "" /\ u.passphrase # ""

\* how many of the users 1..u have a usable triple: the place of user u's
\* record among the records collected
ReportIndex(u) ==
  Cardinality({ n \in 1..u : n <= Len(usersWithApiKeys) /\ HasTriple(usersWithApiKeys[n]) })

\* the users whose record is in the collection
Reported ==
  { u \in 1..Len(usersWithApiKeys) :
      HasTriple(usersWithApiKeys[u]) /\ ReportIndex(u) <= Len(allReports) }

\* the elements of a sequence
Range(q) == { q[n] : n \in 1..Len(q) }

\* the entries of a ledger that lie in the window
WindowEntries(ledger) == { e \in Range(ledger) : e.ts >= thirtyDaysAgo }

\* the text is the rendering of a number
IsNumberText(t) == \E x \in NumRange : t = << ToString(x) >>

\* the number a pnl string stands for, none counting as 0
PnlValue(tok) == IF tok = "" THEN 0 ELSE CHOOSE x \in NumRange : ToString(x) = tok

RECURSIVE EntrySum(_)
\* the sum of the pnl of a sequence of entries
EntrySum(q) == IF Len(q) = 0 THEN 0 ELSE PnlValue(Head(q).pnl) + EntrySum(Tail(q))

\* ---- C1 ------------------------------------------------------------
\* C1: against an exchange that honours the cursor, a successful getBills
\* returns every in-window entry of the ledger exactly once and nothing else,
\* whatever the page size.
C1_ExactWindow ==
  \A u \in Reported : \A k \in Slots :
    LET res == allReports[ReportIndex(u)].trading[k]
        plan == exchange[u].plans[k]
    IN (res.kind = "ok" /\ ~plan.rogue) =>
         /\ Range(res.data) = WindowEntries(plan.ledger)
         /\ Cardinality(Range(res.data)) = Len(res.data)

\* ---- C2 ------------------------------------------------------------
\* the column of the class total of slots <<a, b>>
ClassColumn(slots) == IF slots = SpotSlots THEN 5 ELSE IF slots = PerpsSlots THEN 6 ELSE 7

\* C2: when one instrument's fetch failed and its sibling's succeeded, the
\* class total of the billing row is flagged, not a plain number.
C2_FailedFetchFlagged ==
  Done =>
    \A n \in 1..Len(billingRows) : \A slots \in { SpotSlots, PerpsSlots, InverseSlots } :
      LET t == formattedReport.accounts[n].trading
      IN ( \/ (t[slots[1]].kind = "error" /\ t[slots[2]].kind = "ok")
           \/ (t[slots[1]].kind = "ok" /\ t[slots[2]].kind = "error") )
         => ~IsNumberText(billingRows[n][ClassColumn(slots)])

\* ---- C3 ------------------------------------------------------------
\* fee text f is a quarter of the positive total text p, "0" for any other
FeeOf(p, f) ==
  \E T \in NumRange :
    /\ p = << ToString(T) >>
    /\ \E F \in 0..8 * (MaxLedger + 1) :
         /\ f = << ToString(F) >>
         /\ IF T > 0 THEN 4 * F = T ELSE F = 0

\* C3: in every billing row each fee is 0.25 x its own perpetual total when
\* that total is positive and 0 otherwise, never negative, whatever the spot
\* total.
C3_FeeRule ==
  \A n \in 1..Len(billingRows) :
    /\ FeeOf(billingRows[n][6], billingRows[n][17])
    /\ FeeOf(billingRows[n][7], billingRows[n][18])

\* a row with a positive linear total and its fee, a negative inverse total
\* and no fee, and a spot gain
C3_Witness ==
  /\ Done
  /\ \E n \in 1..Len(billingRows) :
       /\ billingRows[n][5] = << "4" >>
       /\ billingRows[n][6] = << "8" >> /\ billingRows[n][17] = << "2" >>
       /\ billingRows[n][7] = << "-4" >> /\ billingRows[n][18] = << "0" >>

\* ---- C4 ------------------------------------------------------------
\* C4: for an account whose six fetches succeeded, each class total of the
\* row is the sum of the pnl of the fetched entries of the class's two
\* instruments, none counting as 0, and 0 for a class without entries.
C4_ClassTotals ==
  \A n \in 1..Len(billingRows) :
    LET t == formattedReport.accounts[n].trading
    IN (\A k \in Slots : t[k].kind = "ok") =>
         \A slots \in { SpotSlots, PerpsSlots, InverseSlots } :
           billingRows[n][ClassColumn(slots)] =
             << ToString(EntrySum(t[slots[1]].data) + EntrySum(t[slots[2]].data)) >>

\* both spot instruments hold entries, one of them without pnl, and the
\* inverse class holds none
C4_Witness ==
  /\ Done
  /\ \E n \in 1..Len(billingRows) :
       LET t == formattedReport.accounts[n].trading
       IN /\ \A k \in Slots : t[k].kind = "ok"
          /\ Len(t[1].data) = 2 /\ Len(t[2].data) = 1
          /\ \E m \in 1..2 : t[1].data[m].pnl = ""
          /\ billingRows[n][5] = << "8" >>
          /\ Len(t[5].data) = 0 /\ Len(t[6].data) = 0
          /\ billingRows[n][7] = << "0" >>


\* ---- C5 ------------------------------------------------------------
\* the users with a usable triple
Usable == { u \in 1..Len(usersWithApiKeys) : HasTriple(usersWithApiKeys[u]) }

\* C5: no request is ever issued for a user with a credential missing, and
\* the JSON accounts, the billing rows and totalAccounts cover exactly the
\* other users, in the store's order.
C5_SkippedExcluded ==
  /\ \A n \in 1..Len(requests) : requests[n].user \in Usable
  /\ Done =>
       /\ formattedReport.totalAccounts = Cardinality(Usable)
       /\ Len(formattedReport.accounts) = Cardinality(Usable)
       /\ Len(billingRows) = Cardinality(Usable)
       /\ Len(csvLines) = Cardinality(Usable) + 1
       /\ \A u \in Usable :
            formattedReport.accounts[ReportIndex(u)].user.name = usersWithApiKeys[u].name

\* a finished run with a skipped user before a reported one
C5_Witness ==
  /\ Done
  /\ Len(usersWithApiKeys) = 2
  /\ usersWithApiKeys[1].passphrase = ""
  /\ HasTriple(usersWithApiKeys[2])
  /\ formattedReport.totalAccounts = 1
  /\ Len(billingRows) = 1

\* ---- C6 ------------------------------------------------------------
\* C6: once the loop over the users is over, every user with a full triple
\* was processed and is in the collection, whatever failed for the users
\* before it, and for every user whose config and balance requests
\* succeeded all six instruments were fetched, whichever of them failed.
C6_FailuresIsolated ==
  pc \in { "generate", "process", "done" } =>
    \A u \in Usable :
      /\ ReportIndex(u) <= Len(allReports)
      /\ \E n \in 1..Len(requests) : requests[n].user = u /\ requests[n].path = "config"
      /\ (exchange[u].config = "ok" /\ exchange[u].balance.kind = "ok") =>
           \A k \in Slots :
             /\ Len(BillRequests(u, k)) >= 1
             /\ allReports[ReportIndex(u)].trading[k].kind # "null"

\* the first user's config request throws; the second user's first fetch
\* errors and its other five succeed
C6_Witness ==
  /\ Done
  /\ Len(usersWithApiKeys) = 2
  /\ Len(formattedReport.accounts) = 2
  /\ exchange[1].config # "ok"
  /\ formattedReport.accounts[2].trading[1].kind = "error"
  /\ \A k \in 2..6 : formattedReport.accounts[2].trading[k].kind = "ok"
  /\ Len(formattedReport.accounts[2].trading[3].data) = 1

\* ---- C7 ------------------------------------------------------------
\* C7: no getBills call uses up the page requests the model grants it: the
\* loop has stopped before.
C7_PagesBounded ==
  \A u \in 1..Len(usersWithApiKeys) : \A k \in Slots : Len(BillRequests(u, k)) < ReqCap

\* ---- C8 ------------------------------------------------------------
\* the result of the fetch of user u, slot k: in the collection once the
\* record is pushed, in reportData before
ResultOf(u, k) ==
  IF ReportIndex(u) <= Len(allReports)
  THEN allReports[ReportIndex(u)].trading[k]
  ELSE reportData.trading[k]

\* C8: once a page request of a fetch has failed, that request is the last
\* one of the fetch, and the fetch's result is an error without any entry.
C8_FailStopsFetch ==
  \A u \in Usable : \A k \in Slots :
    LET at == exchange[u].plans[k].fail.at
    IN (at >= 1 /\ Len(BillRequests(u, k)) >= at) =>
         /\ Len(BillRequests(u, k)) = at
         /\ ResultOf(u, k).kind = "error"
         /\ ResultOf(u, k).data = << >>

\* a fetch whose first page was collected and whose second request failed
C8_Witness ==
  \E u \in Usable : \E k \in Slots :
    LET plan == exchange[u].plans[k]
    IN /\ plan.fail = [at |-> 2, kind |-> "http"]
       /\ plan.pageSize = 1
       /\ Len(plan.ledger) = 2
       /\ plan.ledger[1].ts >= thirtyDaysAgo
       /\ Len(BillRequests(u, k)) = 2
       /\ BillRequests(u, k)[2].after = plan.ledger[1].billId
       /\ ResultOf(u, k).kind = "error"

\* ---- C9 ------------------------------------------------------------
\* C9: every data line of the CSV splits at its commas into exactly the 18
\* fields of the row, in the column order.
C9_EighteenFields ==
  Done =>
    \A n \in 1..Len(billingRows) :
      /\ Len(split(csvLines[n + 1], ",")) = 18
      /\ split(csvLines[n + 1], ",") = billingRows[n]

\* ---- C10 -----------------------------------------------------------
\* C10: in a finished run every user with a full triple has its record and
\* its row; when its balance query failed the nine balance fields are "0",
\* and when its positions query failed the positions summary is empty.
C10_SnapshotDefaults ==
  Done =>
    \A u \in Usable :
      /\ ReportIndex(u) <= Len(formattedReport.accounts)
      /\ ReportIndex(u) <= Len(billingRows)
      /\ Len(billingRows[ReportIndex(u)]) = 18
      /\ (exchange[u].config = "ok" /\ exchange[u].balance.kind # "ok") =>
           \A c \in 8..16 : billingRows[ReportIndex(u)][c] = << "0" >>
      /\ ( /\ exchange[u].config = "ok"
           /\ exchange[u].balance.kind = "ok"
           /\ exchange[u].positions.kind # "ok" ) =>
           formattedReport.accounts[ReportIndex(u)].summary.positions = << >>

\* the first user's balance query failed, the second user's positions query
\* failed, and both have their row
C10_Witness ==
  /\ Done
  /\ Len(usersWithApiKeys) = 2
  /\ Len(billingRows) = 2
  /\ exchange[1].config = "ok" /\ exchange[1].balance.kind # "ok"
  /\ billingRows[1][8] = << "0" >> /\ billingRows[1][16] = << "0" >>
  /\ exchange[2].config = "ok" /\ exchange[2].balance.kind = "ok"
  /\ exchange[2].positions.kind # "ok"
  /\ formattedReport.accounts[2].summary.positions = << >>
  /\ billingRows[2][8] = << "1.0" >>


\* ---- C13 -----------------------------------------------------------
\* q is the first Len(q) entries of the ledger
IsLedgerPrefix(q, ledger) ==
  /\ Len(q) <= Len(ledger)
  /\ \A n \in 1..Len(q) : q[n] = ledger[n]

\* C13: against an exchange that honours the cursor, what getBills has
\* collected is at every step, and in its result, the newest entries of the
\* ledger without a gap.
C13_ContiguousPrefix ==
  /\ (pc = "bills" /\ ~exchange[i].plans[slot].rogue) =>
       IsLedgerPrefix(allBills, exchange[i].plans[slot].ledger)
  /\ \A u \in Reported \cup (IF pc = "bills" THEN { i } ELSE { }) : \A k \in Slots :
       (ResultOf(u, k).kind = "ok" /\ ~exchange[u].plans[k].rogue) =>
         IsLedgerPrefix(ResultOf(u, k).data, exchange[u].plans[k].ledger)

\* in the middle of a fetch: one page of a two-entry ledger is collected
C13_Witness ==
  /\ pc = "bills"
  /\ ~exchange[i].plans[slot].rogue
  /\ Len(exchange[i].plans[slot].ledger) = 2
  /\ Len(allBills) = 1
  /\ after = allBills[1].billId

\* ---- C14 -----------------------------------------------------------
\* C14: every account of the report was aggregated with all six of its
\* fetches completed, each as a success or as an error.
C14_JoinBeforeAggregate ==
  formattedReport.written =>
    \A n \in 1..Len(formattedReport.accounts) : \A k \in Slots :
      formattedReport.accounts[n].trading[k].kind \in { "ok", "error" }

\* ---- C15 -----------------------------------------------------------
\* C15: the requests are issued user after user, none for a user before the
\* last one of the user before, and the records, the accounts of the report
\* and the rows stand in the order of the store.
C15_Sequential ==
  /\ \A m \in 1..Len(requests) : \A n \in m..Len(requests) :
       requests[m].user <= requests[n].user
  /\ \A u \in Usable :
       ReportIndex(u) <= Len(allReports) =>
         /\ allReports[ReportIndex(u)].user.name = usersWithApiKeys[u].name
         /\ allReports[ReportIndex(u)].user.email = usersWithApiKeys[u].email
  /\ Done =>
       \A u \in Usable :
         /\ ReportIndex(u) <= Len(formattedReport.accounts)
         /\ formattedReport.accounts[ReportIndex(u)].user.name = usersWithApiKeys[u].name

\* two users with different names, the second one's config request failing,
\* both asked and both reported in order
C15_Witness ==
  /\ Done
  /\ Len(usersWithApiKeys) = 2
  /\ usersWithApiKeys[1].name = PlainName
  /\ usersWithApiKeys[2].name = CommaName
  /\ exchange[2].config # "ok"
  /\ \E n \in 1..Len(requests) : requests[n].user = 1 /\ requests[n].path = "bills"
  /\ requests[Len(requests)].user = 2
  /\ Len(formattedReport.accounts) = 2
  /\ formattedReport.accounts[2].user.name = CommaName

\* ---- C17 -----------------------------------------------------------
\* the first detail of the account's balance data with the currency, if any
HasDetail(account, ccy) ==
  /\ account.balances.kind = "ok"
  /\ Len(account.balances.rows) > 0
  /\ \E n \in 1..Len(account.balances.rows[1]) : account.balances.rows[1][n].ccy = ccy

TheDetail(account, ccy) ==
  LET ds == account.balances.rows[1]
  IN ds[CHOOSE n \in 1..Len(ds) : ds[n].ccy = ccy /\ \A m \in 1..(n - 1) : ds[m].ccy # ccy]

\* the first of the three columns of a currency
CcyColumn(ccy) == IF ccy = "BTC" THEN 8 ELSE IF ccy = "ETH" THEN 11 ELSE 14

\* C17 as stated: the three fields of a currency are the equity, USD value
\* and available balance of its detail, unchanged, and "0" without a detail.
C17_CopiedUnchanged ==
  Done =>
    \A n \in 1..Len(billingRows) : \A ccy \in { "BTC", "ETH", "USDT" } :
      LET acc == formattedReport.accounts[n]
          c == CcyColumn(ccy)
      IN IF HasDetail(acc, ccy)
         THEN /\ billingRows[n][c] = TheDetail(acc, ccy).eq
              /\ billingRows[n][c + 1] = TheDetail(acc, ccy).eqUsd
              /\ billingRows[n][c + 2] = TheDetail(acc, ccy).availBal
         ELSE \A d \in 0..2 : billingRows[n][c + d] = << "0" >>

\* a measure as the row shows it: unchanged, "0" when it is empty
ShownMeasure(t) == IF t = << >> THEN << "0" >> ELSE t

\* C17 amended: the three fields of a currency are the equity, USD value and
\* available balance of its detail, unchanged unless empty, an empty value
\* shown as "0"; without a detail all three are "0".
C17_CopiedOrZero ==
  Done =>
    \A n \in 1..Len(billingRows) : \A ccy \in { "BTC", "ETH", "USDT" } :
      LET acc == formattedReport.accounts[n]
          c == CcyColumn(ccy)
      IN IF HasDetail(acc, ccy)
         THEN /\ billingRows[n][c] = ShownMeasure(TheDetail(acc, ccy).eq)
              /\ billingRows[n][c + 1] = ShownMeasure(TheDetail(acc, ccy).eqUsd)
              /\ billingRows[n][c + 2] = ShownMeasure(TheDetail(acc, ccy).availBal)
         ELSE \A d \in 0..2 : billingRows[n][c + d] = << "0" >>

\* balance data that lists USDT, ETH and BTC in that order, the ETH equity
\* empty
C17_Witness ==
  /\ Done
  /\ \E n \in 1..Len(billingRows) :
       /\ HasDetail(formattedReport.accounts[n], "ETH")
       /\ formattedReport.accounts[n].balances.rows[1][1].ccy = "USDT"
       /\ billingRows[n][8] = << "1.0" >>
       /\ billingRows[n][9] = << "60000" >>
       /\ billingRows[n][11] = << "0" >>
       /\ billingRows[n][12] = << "30" >>
       /\ billingRows[n][16] = << "499" >>

\* ---- C20 -----------------------------------------------------------
\* the answer the exchange gave to the nth bills request of user u, slot k
AnswerTo(u, k, n) ==
  BillsResponse(exchange[u].plans[k], BillRequests(u, k)[n].after, limit, n)

\* C20: a page request that is followed by another one of the same fetch
\* was answered with a page that is not empty and holds no entry older than
\* the window.
C20_StopsAfterLastPage ==
  \A u \in Usable : \A k \in Slots :
    \A n \in 1..(Len(BillRequests(u, k)) - 1) :
      /\ AnswerTo(u, k, n).kind = "ok"
      /\ Len(AnswerTo(u, k, n).data) > 0
      /\ \A m \in 1..Len(AnswerTo(u, k, n).data) :
           AnswerTo(u, k, n).data[m].ts >= thirtyDaysAgo

\* a fetch that is over after two requests, the second answered with an
\* older entry, and a fetch over after one empty page
C20_Witness ==
  /\ pc = "bills"
  /\ slot = 3
  /\ Len(BillRequests(i, 1)) = 2
  /\ Len(AnswerTo(i, 1, 1).data) = 1
  /\ Len(AnswerTo(i, 1, 2).data) = 1
  /\ AnswerTo(i, 1, 2).data[1].ts < thirtyDaysAgo
  /\ Len(BillRequests(i, 2)) = 1
  /\ Len(AnswerTo(i, 2, 1).data) = 0


\* ---- C11 -----------------------------------------------------------
\* neither a row of the store nor the environment holds a full triple
NoCredentialAnywhere ==
  /\ \A n \in 1..Len(store.rows) : store.kind = "ok" => ~HasTriple(store.rows[n])
  /\ (env.API_KEY = "" \/ env.SECRET_KEY = "" \/ env.PASSPHRASE = "")

\* C11: when no source holds a usable credential triple the run emits no
\* report, neither the JSON nor the CSV; in every other case the run that
\* has come to its end has emitted both.
C11_AbortIffNoCredentials ==
  /\ NoCredentialAnywhere =>
       (~formattedReport.written /\ jsonAt = "none" /\ csvLines = << >>)
  /\ (Done /\ ~NoCredentialAnywhere) =>
       (formattedReport.written /\ Len(csvLines) >= 1)


\* ---- C18 -----------------------------------------------------------
\* a step that is a further run of processReport on the report
IsRerun == Len(runs) >= 1 /\ Len(runs') = Len(runs) + 1

\* C18 as stated: a further run of processReport on the report succeeds and
\* leaves a CSV identical to the one that was there.
C18_SecondRunIdentical ==
  [][IsRerun => (runs'[Len(runs')].outcome = "ok" /\ csvLines' = csvLines)]_vars

\* C18 amended: a further run of processReport succeeds exactly when it is
\* given the path in the dated folder, where the first run has moved the
\* report, and then writes a CSV identical to the one that was there and
\* leaves the report in the dated folder; given the path the report was
\* first written to it fails and changes nothing.
C18_RerunWhereMoved ==
  [][IsRerun =>
       /\ runs'[Len(runs')].outcome = "ok" <=> runs'[Len(runs')].path = "outputDir"
       /\ csvLines' = csvLines
       /\ billingRows' = billingRows
       /\ jsonAt' = "outputDir" /\ jsonAt = "outputDir"]_vars

\* a second run on the moved report, a day after the report was written,
\* has succeeded and the CSV has a line for an account
C18_Witness ==
  /\ Len(runs) = 2
  /\ runs[1] = Run("cwd", "ok")
  /\ runs[2] = Run("outputDir", "ok")
  /\ now > formattedReport.timestamp + 1
  /\ Len(csvLines) >= 2
  /\ csvLines[2][1] = "5"


\* ---- C19 -----------------------------------------------------------
\* getBills run to its end against one instrument's plan, n the number of
\* the request: what a run that fetches nothing else gets for it
RECURSIVE SoloGetBills(_, _, _, _)
SoloGetBills(plan, collected, cursor, n) ==
  LET resp == BillsResponse(plan, cursor, limit, n)
      step == LoopBody(collected, cursor, resp.data)
  IN IF Throws(resp) THEN BillsError(collected)
     ELSE IF step.break \/ n >= ReqCap THEN BillsOk(step.allBills)
     ELSE SoloGetBills(plan, step.allBills, step.after, n + 1)

\* the record main() ends up with for a user when it is the only one: built
\* from the user's row and the answers of the user's own exchange
SoloRecord(user, x) ==
  LET fresh == [ user |-> [ name |-> user.name, email |-> user.email,
                            id |-> DisplayUserId(user.id),
                            label |-> OrDefault(user.label, << "No Label" >>) ],
                 accountInfo |-> "null",
                 balances |-> [kind |-> "null", rows |-> << >>],
                 positions |-> [kind |-> "null", data |-> << >>],
                 trading |-> [k \in Slots |-> NullBills] ]
  IN IF x.config # "ok" THEN fresh
     ELSE IF x.balance.kind # "ok" THEN [fresh EXCEPT !.accountInfo = "config"]
     ELSE [ fresh EXCEPT
              !.accountInfo = "config",
              !.balances = x.balance,
              !.positions = getActivePositions(x.positions),
              !.trading = [k \in Slots |->
                             SoloGetBills(x.plans[k], << >>, NoCursor, 1)] ]

\* the PnL, balance and fee fields of a row
Figures(fields) == SubSeq(fields, 5, 18)

\* C19: the PnL, balance and fee fields of a user's row are those that the
\* user's own row of the store and own exchange yield when processed alone,
\* whatever the other users, their data and their failures are.
C19_OwnResponsesOnly ==
  Done =>
    \A u \in Usable :
      /\ ReportIndex(u) <= Len(billingRows)
      /\ Len(billingRows[ReportIndex(u)]) = 18
      /\ Figures(billingRows[ReportIndex(u)]) =
           Figures(RowFields(FormatAccount(SoloRecord(usersWithApiKeys[u], exchange[u]))))

\* two users reported, the first with a perpetuals gain, the second with a
\* failed config request and no figures of its own
C19_Witness ==
  /\ Done
  /\ Len(usersWithApiKeys) = 2
  /\ Len(billingRows) = 2
  /\ exchange[1].config = "ok"
  /\ exchange[2].config # "ok"
  /\ billingRows[1][6] = << "4" >>
  /\ billingRows[1][17] = << "1" >>
  /\ billingRows[2][6] = << "0" >>
  /\ billingRows[2][17] = << "0" >>


\* ---- C16 -----------------------------------------------------------
\* the plan with its ledger served in pages of s entries
Resplit(plan, s) == [plan EXCEPT !.pageSize = s]

\* the sum of the pnl of what a fetch returned
FetchTotal(result) == EntrySum(result.data)

\* C16: the total of an instrument fetched from an exchange that honours the
\* cursor and fails no request is the total that the same ledger yields when
\* it is served in pages of any other size.
C16_SplitIndependent ==
  \A u \in Reported : \A k \in Slots :
    LET res == allReports[ReportIndex(u)].trading[k]
        plan == exchange[u].plans[k]
    IN (res.kind = "ok" /\ ~plan.rogue /\ plan.fail = NoFail) =>
         \A s \in 1..MaxPage :
           FetchTotal(res) = FetchTotal(SoloGetBills(Resplit(plan, s), << >>, NoCursor, 1))


\* ---- C12 -----------------------------------------------------------
\* the number a pnl string counts for when what is not numeric counts as 0
NumericOrZero(tok) ==
  IF \E x \in NumRange : ToString(x) = tok
  THEN CHOOSE x \in NumRange : ToString(x) = tok
  ELSE 0

RECURSIVE LenientSum(_)
LenientSum(q) ==
  IF Len(q) = 0 THEN 0 ELSE NumericOrZero(Head(q).pnl) + LenientSum(Tail(q))

\* C12: with a pnl that is present but not numeric among the fetched entries,
\* each class total of the row is the sum of the numeric pnl of the class's
\* entries, and totals and fees are numbers.
C12_NonNumericCountsZero ==
  Done =>
    \A n \in 1..Len(billingRows) : \A slots \in { SpotSlots, PerpsSlots, InverseSlots } :
      LET t == formattedReport.accounts[n].trading
      IN (t[slots[1]].kind = "ok" /\ t[slots[2]].kind = "ok") =>
           /\ billingRows[n][ClassColumn(slots)] =
                << ToString(LenientSum(t[slots[1]].data) + LenientSum(t[slots[2]].data)) >>
           /\ IsNumberText(billingRows[n][17])
           /\ IsNumberText(billingRows[n][18])


\* ---- C21 -----------------------------------------------------------
\* C21: the first page request of a fetch carries no cursor, every later one
\* carries the billId of the last entry of the page that answered the request
\* before it, and every page request asks for at most 100 entries.
C21_CursorChain ==
  \A u \in Usable : \A k \in Slots :
    \A n \in 1..Len(BillRequests(u, k)) :
      /\ BillRequests(u, k)[n].limit <= 100
      /\ IF n = 1
         THEN BillRequests(u, k)[n].after = NoCursor
         ELSE /\ Len(AnswerTo(u, k, n - 1).data) > 0
              /\ BillRequests(u, k)[n].after =
                   AnswerTo(u, k, n - 1).data[Len(AnswerTo(u, k, n - 1).data)].billId

\* a third request of a fetch, each page of one entry: the cursor has moved
\* twice
C21_Witness ==
  \E u \in Usable : \E k \in Slots :
    /\ Len(BillRequests(u, k)) = 3
    /\ BillRequests(u, k)[1].after = NoCursor
    /\ BillRequests(u, k)[2].after # NoCursor
    /\ BillRequests(u, k)[3].after # BillRequests(u, k)[2].after
    /\ BillRequests(u, k)[3].after = AnswerTo(u, k, 2).data[1].billId
    /\ BillRequests(u, k)[3].limit = 100

\* ---- C22 -----------------------------------------------------------
\* the positions of a response whose size is not zero
OpenPositions(data) == SelectSeq(data, LAMBDA p : p.pos # "0")

\* C22: for an account whose positions request was answered, the summary
\* lists the positions of nonzero size, one line each in the response's
\* order, and the positions field is the response itself.
C22_SummaryFiltersRawKept ==
  Done =>
    \A u \in Usable :
      LET x == exchange[u]
      IN (x.config = "ok" /\ x.balance.kind = "ok" /\ x.positions.kind = "ok") =>
           /\ ReportIndex(u) <= Len(formattedReport.accounts)
           /\ LET acc == formattedReport.accounts[ReportIndex(u)]
                  open == OpenPositions(x.positions.data)
              IN /\ acc.positions = x.positions
                 /\ Len(acc.summary.positions) = Len(open)
                 /\ \A n \in 1..Len(open) :
                      /\ n <= Len(acc.summary.positions)
                      /\ acc.summary.positions[n][1] = open[n].instId
                      /\ acc.summary.positions[n][3] = open[n].pos

\* a response with a position of size 0 and one of size 4: one line in the
\* summary, both in the record
C22_Witness ==
  /\ Done
  /\ \E n \in 1..Len(formattedReport.accounts) :
       LET acc == formattedReport.accounts[n]
       IN /\ acc.positions.kind = "ok"
          /\ Len(acc.positions.data) = 2
          /\ acc.positions.data[1].pos = "0"
          /\ Len(acc.summary.positions) = 1
          /\ acc.summary.positions[1][1] = "ETH-USDT-SWAP"


\* ---- C23 -----------------------------------------------------------
\* the config request or the balance request of the user's account throws
SetupThrows(u) == exchange[u].config # "ok" \/ exchange[u].balance.kind # "ok"

\* C23: for a user whose config or balance request throws, no bills request
\* is ever issued; the user's record is in the report with its six bills
\* fields unset, and the row shows 0 for the three totals and the two fees.
C23_SetupFailureZeroRow ==
  \A u \in Usable :
    SetupThrows(u) =>
      /\ \A n \in 1..Len(requests) :
           requests[n].user = u => requests[n].path \in { "config", "balance" }
      /\ Done =>
           /\ ReportIndex(u) <= Len(billingRows)
           /\ \A k \in Slots :
                formattedReport.accounts[ReportIndex(u)].trading[k].kind = "null"
           /\ \A c \in { 5, 6, 7, 17, 18 } :
                billingRows[ReportIndex(u)][c] = << "0" >>

\* two users, the first stopped at its config request, the second at its
\* balance request, both with a row
C23_Witness ==
  /\ Done
  /\ Len(usersWithApiKeys) = 2
  /\ exchange[1].config # "ok"
  /\ exchange[2].config = "ok" /\ exchange[2].balance.kind # "ok"
  /\ Len(requests) = 3
  /\ Len(billingRows) = 2
  /\ billingRows[2][6] = << "0" >>

\* ---- C24 -----------------------------------------------------------
\* the total of one instrument as generateReport has it: the sum of the pnl
\* of the entries fetched, 0 without a successful fetch
InstrumentTotal(bills) == IF bills.kind = "ok" THEN EntrySum(bills.data) ELSE 0

\* C24: each class total of a row is the sum of the totals of the class's
\* two instruments, whether these are positive, negative or zero, fetched or
\* not.
C24_ParsedEqualsComputed ==
  Done =>
    \A n \in 1..Len(billingRows) : \A slots \in { SpotSlots, PerpsSlots, InverseSlots } :
      LET t == formattedReport.accounts[n].trading
      IN billingRows[n][ClassColumn(slots)] =
           << ToString(InstrumentTotal(t[slots[1]]) + InstrumentTotal(t[slots[2]])) >>

\* a gain and a loss that cancel in the spot class, a gain beside a zero
\* total in the perpetuals class, two losses in the inverse class
C24_Witness ==
  /\ Done
  /\ \E n \in 1..Len(billingRows) :
       LET acc == formattedReport.accounts[n]
       IN /\ Len(acc.summary.pnl.spot) = 2
          /\ billingRows[n][5] = << "0" >>
          /\ Len(acc.summary.pnl.perpetuals) = 1
          /\ billingRows[n][6] = << "4" >>
          /\ Len(acc.summary.pnl.inversePerpetuals) = 2
          /\ billingRows[n][7] = << "-8" >>


\* ---- C25 -----------------------------------------------------------
\* the text of a row: its fields with a comma between them
RowText(fields) == join(fields, ",")

\* C25: once the CSV is written, and after every further run of
\* processReport, it holds the header and one line per account of the JSON
\* report in the accounts' order, and totalAccounts is the number of accounts
\* and of data lines.
C25_OneRowPerAccount ==
  Done =>
    /\ formattedReport.totalAccounts = Len(formattedReport.accounts)
    /\ Len(billingRows) = Len(formattedReport.accounts)
    /\ Len(csvLines) = 1 + Len(formattedReport.accounts)
    /\ \A n \in 1..Len(formattedReport.accounts) :
         /\ n <= Len(billingRows) /\ n + 1 <= Len(csvLines)
         /\ billingRows[n][3] =
              (IF formattedReport.accounts[n].user.name = << >> THEN << "Unknown" >>
               ELSE formattedReport.accounts[n].user.name)
         /\ csvLines[n + 1] = RowText(billingRows[n])

\* two accounts with different names, the CSV written a second time
C25_Witness ==
  /\ Done
  /\ Len(runs) = 2 /\ runs[2].outcome = "ok"
  /\ formattedReport.totalAccounts = 2
  /\ Len(csvLines) = 3
  /\ billingRows[1][3] = CommaName
  /\ billingRows[2][3] = PlainName

\* ---- C26 -----------------------------------------------------------
\* the store has answered with at least one row
StoreYieldsRows == store.kind = "ok" /\ Len(store.rows) > 0

\* C26: after the start of main() the users to process are the rows of the
\* store when it has answered with at least one, and else, whatever the
\* store's failure, the one user built from the environment; the run goes on
\* to the loop in both cases.
C26_FallbackExactlyWhenEmpty ==
  pc # "start" =>
    IF StoreYieldsRows
    THEN usersWithApiKeys = store.rows
    ELSE /\ Len(usersWithApiKeys) = 1
         /\ usersWithApiKeys[1].name = << "Unknown User" >>
         /\ usersWithApiKeys[1].api_key = env.API_KEY
         /\ usersWithApiKeys[1].secret_key = env.SECRET_KEY
         /\ usersWithApiKeys[1].passphrase = env.PASSPHRASE

\* the store's query failed and the run has ended with a report on the
\* fallback account alone
C26_Witness ==
  /\ Done
  /\ store.kind = "failed"
  /\ Len(usersWithApiKeys) = 1
  /\ Len(billingRows) = 1
  /\ billingRows[1][3] = << "Unknown User" >>
  /\ \E n \in 1..Len(requests) : requests[n].path = "bills"

====
